---- MODULE Spec2Model ----
(***************************************************************************)
(* NOVA: cost-aware model routing and task dispatch.                       *)
(*                                                                         *)
(* The module models src/src/ai/reasoning_engine.py (CostOptimizedRouter   *)
(* and ReasoningEngine.process_task) together with the CostTracking,       *)
(* Model, Task and AIResponse records of src/src/models/ai.py, and the     *)
(* reply NOVACore.process_user_request (src/src/core/nova_core.py) builds  *)
(* from a response, and ModelManager.download_models_parallel              *)
(* (src/src/core/model_manager.py).                                        *)
(*                                                                         *)
(* Six specifications share the variables: Spec (a process_task call and   *)
(* the request around it), LedgerSpec (track_usage, the clock and          *)
(* restarts), ConcurrentSpec (coroutines of one event loop recording       *)
(* usage), SaveSpec (the save of the budget file step by step), RouteSpec  *)
(* (routing alone, over a wider choice of models and requests) and         *)
(* DownloadSpec (parallel downloads under the semaphore).                  *)
(*                                                                         *)
(* Money is counted in tenths of a currency unit (10.0 is 100), so that    *)
(* every threshold of the router (1.0, 2.0, 5.0) and the budgets between   *)
(* them are integers.  Sums of costs are exact in the model; the rounding  *)
(* of binary floating point additions is not modelled.  Confidence is      *)
(* counted in tenths as well (0.9 is 9).                                   *)
(***************************************************************************)
EXTENDS Integers, Sequences, FiniteSets, TLC

VARIABLES
    available_models,   \* ReasoningEngine.available_models: a list of Model
    cost_tracking,      \* CostOptimizedRouter.cost_tracking: a CostTracking
    current_month,      \* CostOptimizedRouter.current_month, set by __init__
    disk,               \* ~/.nova/cost_tracking.json: NoFile or a JSON object
    clock,              \* the wall-clock month, datetime.now().strftime('%Y-%m')
    pc,                 \* where process_task stands
    task,               \* the Task process_task was called with
    selected_model,     \* process_task's selected_model
    fallback_model,     \* process_task's fallback_model
    response,           \* the AIResponse process_task returns
    reply,              \* the dict NOVACore.process_user_request returns
    coroutines,         \* the other coroutines of the event loop that use the router
    max_concurrent,     \* download_models_parallel's max_concurrent
    semaphore,          \* the value of its asyncio.Semaphore: the free slots
    jobs,               \* its download_with_retry coroutines, by requested model
    results             \* its results dict

vars == <<available_models, cost_tracking, current_month, disk, clock,
          pc, task, selected_model, fallback_model, response, reply, coroutines,
          max_concurrent, semaphore, jobs, results>>

-----------------------------------------------------------------------------
(* Bounds of the model.                                                    *)

MaxModels == 3      \* longest list of available models
MaxMonth == 2       \* last wall-clock month the clock reaches
MaxTokens == 3      \* most tokens track_usage records in one period
MaxSpent == 105     \* most money track_usage records in one period

-----------------------------------------------------------------------------
(* Program constants.                                                      *)

MonthlyLimit == 100         \* monthly_limit = 10.0
ReserveMedium == 20         \* remaining_budget > 2.0
ReserveComplex == 50        \* remaining_budget > 5.0
ReserveCritical == 10       \* remaining_budget > 1.0
QualityFloor == 7           \* m.quality_score >= 7
DefaultMaxConcurrent == 3   \* download_models_parallel(max_concurrent=3)
MaxRetries == 3             \* download_with_retry: max_retries = 3
SuccessConfidence == 7      \* self.confidence > 0.7
OllamaConfidence == 9       \* confidence=0.9

ModelType_LOCAL == "local"
ModelType_FREE_API == "free_api"
ModelType_PREMIUM_API == "premium_api"

SIMPLE == "simple"
MEDIUM == "medium"
COMPLEX == "complex"
CRITICAL == "critical"

TaskComplexity == {SIMPLE, MEDIUM, COMPLEX, CRITICAL}

-----------------------------------------------------------------------------
(* Models.  The list a process works with is built once, by                *)
(* NOVACore._get_available_models, from the locally installed models, the  *)
(* free cloud model and, with a credential, the premium model.  The price  *)
(* is in thousandths of a currency unit per 1k tokens.                     *)

Model(n, t, caps, price, speed, quality) ==
    [name |-> n, type |-> t, capabilities |-> caps,
     cost_per_1k_tokens |-> price, speed_score |-> speed, quality_score |-> quality]

Llama == Model("llama3:8b", ModelType_LOCAL, {"general", "code"}, 0, 8, 7)
TinyDolphin == Model("tinydolphin", ModelType_LOCAL, {"general", "uncensored", "fast"}, 0, 10, 6)
GroqMixtral == Model("groq-mixtral", ModelType_FREE_API, {"general", "code", "fast"}, 0, 10, 8)
Gpt4Turbo == Model("gpt-4-turbo", ModelType_PREMIUM_API, {"general", "code", "reasoning", "vision"}, 10, 7, 10)

ModelPool == {Llama, TinyDolphin, GroqMixtral, Gpt4Turbo}

NoModel == Model("none", "none", {}, 0, 0, 0)

is_free(m) == m.cost_per_1k_tokens = 0

\* Every list of distinct models of the pool, up to MaxModels long.
ModelLists ==
    {s \in UNION {[1..n -> ModelPool] : n \in 0..MaxModels} :
        \A i, j \in DOMAIN s : i # j => s[i] # s[j]}

\* What NOVACore builds when one local model is installed and a credential is set.
DefaultModels == <<Llama, GroqMixtral, Gpt4Turbo>>

-----------------------------------------------------------------------------
(* CostTracking.                                                           *)

CostTracking(month, total, costs, tokens, limit) ==
    [month |-> month, total_cost |-> total, cost_by_model |-> costs,
     tokens_by_model |-> tokens, budget_limit |-> limit]

EmptyMap == [n \in {} |-> 0]

Max(a, b) == IF a >= b THEN a ELSE b

\* remaining_budget without the floor at zero.
remaining_budget_unclamped(ct) == ct.budget_limit - ct.total_cost

remaining_budget(ct) == Max(0, ct.budget_limit - ct.total_cost)

RECURSIVE SumOver(_, _)
SumOver(f, keys) ==
    IF keys = {} THEN 0
    ELSE LET k == CHOOSE x \in keys : TRUE
         IN f[k] + SumOver(f, keys \ {k})

\* sum(d.values())
SumValues(f) == SumOver(f, DOMAIN f)

\* d[k] = v on a dict: the key is added when it is missing.
Put(f, k, v) == [x \in (DOMAIN f) \cup {k} |-> IF x = k THEN v ELSE f[x]]

\* track_usage with the per-model cost added only for a model already known.
track_usage_known_only(ct, name, tokens, cost) ==
    LET known == name \in DOMAIN ct.cost_by_model
        costs == IF known THEN ct.cost_by_model ELSE Put(ct.cost_by_model, name, 0)
        toks == IF known THEN ct.tokens_by_model ELSE Put(ct.tokens_by_model, name, 0)
    IN [ct EXCEPT !.total_cost = @ + cost,
                  !.cost_by_model =
                      IF known THEN Put(costs, name, costs[name] + cost) ELSE costs,
                  !.tokens_by_model = Put(toks, name, toks[name] + tokens)]

\* CostOptimizedRouter.track_usage, the update of the period in memory.
track_usage(ct, name, tokens, cost) ==
    LET costs == IF name \in DOMAIN ct.cost_by_model
                 THEN ct.cost_by_model
                 ELSE Put(ct.cost_by_model, name, 0)
        toks == IF name \in DOMAIN ct.cost_by_model
                THEN ct.tokens_by_model
                ELSE Put(ct.tokens_by_model, name, 0)
    IN [ct EXCEPT !.total_cost = @ + cost,
                  !.cost_by_model = Put(costs, name, costs[name] + cost),
                  !.tokens_by_model = Put(toks, name, toks[name] + tokens)]

-----------------------------------------------------------------------------
(* The budget file.  A JSON value is a tagged record: a string, a number   *)
(* or an object, and an object is a set of <<key, value>> members.         *)

NoFile == [t |-> "absent", v |-> {}]

JStr(x) == [t |-> "string", v |-> x]
JNum(x) == [t |-> "number", v |-> x]
JObj(members) == [t |-> "object", v |-> members]

\* json.dump of a dict of numbers.
DumpMap(f) == JObj({<<k, JNum(f[k])>> : k \in DOMAIN f})

\* json.load of an object of numbers: a dict again.
LoadMap(j) ==
    LET keys == {m[1] : m \in j.v}
    IN [k \in keys |-> (CHOOSE m \in j.v : m[1] = k)[2].v]

\* data[key] of a loaded object.
Member(j, key) == (CHOOSE m \in j.v : m[1] = key)[2]

\* save_cost_tracking writing the cost map under both map keys.
save_cost_tracking_same_map(ct) ==
    JObj({<<"month", JStr(ct.month)>>,
          <<"total_cost", JNum(ct.total_cost)>>,
          <<"cost_by_model", DumpMap(ct.cost_by_model)>>,
          <<"tokens_by_model", DumpMap(ct.cost_by_model)>>,
          <<"budget_limit", JNum(ct.budget_limit)>>})

\* CostOptimizedRouter.save_cost_tracking: the file it writes.
save_cost_tracking(ct) ==
    JObj({<<"month", JStr(ct.month)>>,
          <<"total_cost", JNum(ct.total_cost)>>,
          <<"cost_by_model", DumpMap(ct.cost_by_model)>>,
          <<"tokens_by_model", DumpMap(ct.tokens_by_model)>>,
          <<"budget_limit", JNum(ct.budget_limit)>>})

\* CostOptimizedRouter._load_cost_tracking: the period a new process starts with.
load_cost_tracking(file, month, limit) ==
    IF file # NoFile /\ Member(file, "month").v = month
    THEN CostTracking(Member(file, "month").v,
                      Member(file, "total_cost").v,
                      LoadMap(Member(file, "cost_by_model")),
                      LoadMap(Member(file, "tokens_by_model")),
                      Member(file, "budget_limit").v)
    ELSE CostTracking(month, 0, EmptyMap, EmptyMap, limit)

\* datetime.now().strftime('%Y-%m'): the key of a wall-clock month.
MonthKey(n) == <<2024 + ((n - 1) \div 12), ((n - 1) % 12) + 1>>

-----------------------------------------------------------------------------
(* Routing.                                                                *)

Task(complexity, code) == [complexity |-> complexity, requires_code_gen |-> code]

Tasks == {Task(c, g) : c \in TaskComplexity, g \in BOOLEAN}

NoTask == Task("none", FALSE)

\* A task object that has no complexity attribute yet: process_task classifies it.
UnclassifiedTask(length, code) == [content_length |-> length, requires_code_gen |-> code]

\* len(task.content) of the unclassified tasks, on both sides of every threshold.
ContentLengths == {0, 99, 100, 499, 500, 1999, 2000}

UnclassifiedTasks == {UnclassifiedTask(n, g) : n \in ContentLengths, g \in BOOLEAN}

\* The content lengths where _analyze_complexity changes its answer.
SimpleBelow == 100
MediumBelow == 500
ComplexBelow == 2000

\* _analyze_complexity counting a task of the threshold length to the lower class.
analyze_complexity_inclusive(t) ==
    IF t.content_length <= SimpleBelow /\ ~t.requires_code_gen THEN SIMPLE
    ELSE IF t.content_length <= MediumBelow \/ t.requires_code_gen THEN MEDIUM
    ELSE IF t.content_length <= ComplexBelow THEN COMPLEX
    ELSE CRITICAL

\* ReasoningEngine._analyze_complexity
analyze_complexity(t) ==
    IF t.content_length < SimpleBelow /\ ~t.requires_code_gen THEN SIMPLE
    ELSE IF t.content_length < MediumBelow \/ t.requires_code_gen THEN MEDIUM
    ELSE IF t.content_length < ComplexBelow THEN COMPLEX
    ELSE CRITICAL

\* process_task, "if not hasattr(task, 'complexity')": the task routing works on.
with_complexity(t) ==
    IF "complexity" \in DOMAIN t THEN t
    ELSE [content_length |-> t.content_length,
          requires_code_gen |-> t.requires_code_gen,
          complexity |-> analyze_complexity(t)]

\* KeyLess on the key (m.speed_score, m.quality_score).
KeyLessSpeedFirst(a, b) ==
    \/ a.speed_score < b.speed_score
    \/ a.speed_score = b.speed_score /\ a.quality_score < b.quality_score

\* The sort key (m.quality_score, m.speed_score) of a is less than that of b.
KeyLess(a, b) ==
    \/ a.quality_score < b.quality_score
    \/ a.quality_score = b.quality_score /\ a.speed_score < b.speed_score

\* list.sort(key=..., reverse=True): stable, equal keys keep their order.
RECURSIVE InsertDescending(_, _)
InsertDescending(m, sorted) ==
    IF sorted = <<>> THEN <<m>>
    ELSE IF KeyLess(Head(sorted), m) THEN <<m>> \o sorted
    ELSE <<Head(sorted)>> \o InsertDescending(m, Tail(sorted))

RECURSIVE SortDescendingInto(_, _)
SortDescendingInto(models, sorted) ==
    IF models = <<>> THEN sorted
    ELSE SortDescendingInto(Tail(models), InsertDescending(Head(models), sorted))

SortDescending(models) == SortDescendingInto(models, <<>>)

\* What route_task gives: the sorted candidates and their head, or the error.
Routed(sorted) == [ok |-> TRUE, model |-> Head(sorted), pool |-> sorted]
RouteError == [ok |-> FALSE, model |-> NoModel, pool |-> <<>>]

\* _select_best_model without the special handling of code generation.
select_best_model_unfiltered(models, t) ==
    IF models = <<>> THEN RouteError
    ELSE Routed(SortDescending(models))

\* CostOptimizedRouter._select_best_model
select_best_model(models, t) ==
    IF models = <<>> THEN RouteError
    ELSE LET code_models == SelectSeq(models, LAMBDA m : "code" \in m.capabilities)
             pool == IF t.requires_code_gen /\ code_models # <<>>
                     THEN code_models ELSE models
         IN Routed(SortDescending(pool))

\* route_exhausted taking the best of every model for the harder tasks.
route_exhausted_any(t, local_models, free_api_models, premium_models) ==
    IF t.complexity \in {SIMPLE, MEDIUM}
    THEN select_best_model(local_models \o free_api_models, t)
    ELSE select_best_model(local_models \o premium_models, t)

\* route_task with no budget left: only models that cost nothing.
route_exhausted(t, local_models, free_api_models, premium_models) ==
    IF t.complexity \in {SIMPLE, MEDIUM}
    THEN select_best_model(local_models \o free_api_models, t)
    ELSE select_best_model(local_models, t)

\* route_task, TaskComplexity.SIMPLE
route_simple(t, local_models, free_api_models) ==
    IF local_models # <<>> THEN select_best_model(local_models, t)
    ELSE IF free_api_models # <<>> THEN select_best_model(free_api_models, t)
    ELSE RouteError

\* route_medium spending on a premium model down to the reserve itself.
route_medium_inclusive(t, local_models, free_api_models, premium_models, remaining) ==
    LET candidates ==
            free_api_models \o
            SelectSeq(local_models, LAMBDA m : m.quality_score >= QualityFloor)
    IN IF candidates # <<>> THEN select_best_model(candidates, t)
       ELSE IF remaining >= ReserveMedium /\ premium_models # <<>>
            THEN select_best_model(premium_models, t)
       ELSE IF local_models # <<>> THEN select_best_model(local_models, t)
       ELSE RouteError

\* route_task, TaskComplexity.MEDIUM
route_medium(t, local_models, free_api_models, premium_models, remaining) ==
    LET candidates ==
            free_api_models \o
            SelectSeq(local_models, LAMBDA m : m.quality_score >= QualityFloor)
    IN IF candidates # <<>> THEN select_best_model(candidates, t)
       ELSE IF remaining > ReserveMedium /\ premium_models # <<>>
            THEN select_best_model(premium_models, t)
       ELSE IF local_models # <<>> THEN select_best_model(local_models, t)
       ELSE RouteError

\* route_task, TaskComplexity.COMPLEX
route_complex(t, local_models, free_api_models, premium_models, remaining) ==
    IF remaining > ReserveComplex /\ premium_models # <<>>
    THEN select_best_model(premium_models, t)
    ELSE IF local_models # <<>> THEN select_best_model(local_models, t)
    ELSE IF free_api_models # <<>> THEN select_best_model(free_api_models, t)
    ELSE RouteError

\* route_critical keeping the reserve of the complex tasks.
route_critical_reserve(t, local_models, free_api_models, premium_models, remaining) ==
    IF remaining > ReserveComplex /\ premium_models # <<>>
    THEN select_best_model(premium_models, t)
    ELSE IF local_models # <<>> THEN select_best_model(local_models, t)
    ELSE IF free_api_models # <<>> THEN select_best_model(free_api_models, t)
    ELSE RouteError

\* route_task, TaskComplexity.CRITICAL
route_critical(t, local_models, free_api_models, premium_models, remaining) ==
    IF remaining > ReserveCritical /\ premium_models # <<>>
    THEN select_best_model(premium_models, t)
    ELSE IF local_models # <<>> THEN select_best_model(local_models, t)
    ELSE IF free_api_models # <<>> THEN select_best_model(free_api_models, t)
    ELSE RouteError

\* CostOptimizedRouter.route_task: the model, or the ValueError it raises.
route_task(t, models, ct) ==
    LET remaining == remaining_budget(ct)
        local_models == SelectSeq(models, LAMBDA m : m.type = ModelType_LOCAL)
        free_api_models ==
            SelectSeq(models, LAMBDA m : m.type = ModelType_FREE_API /\ is_free(m))
        premium_models == SelectSeq(models, LAMBDA m : m.type = ModelType_PREMIUM_API)
    IN IF remaining <= 0
       THEN route_exhausted(t, local_models, free_api_models, premium_models)
       ELSE IF t.complexity = SIMPLE
       THEN route_simple(t, local_models, free_api_models)
       ELSE IF t.complexity = MEDIUM
       THEN route_medium(t, local_models, free_api_models, premium_models, remaining)
       ELSE IF t.complexity = COMPLEX
       THEN route_complex(t, local_models, free_api_models, premium_models, remaining)
       ELSE route_critical(t, local_models, free_api_models, premium_models, remaining)

\* ReasoningEngine._get_fallback_model: NoModel stands for None.
get_fallback_model(failed_model, models) ==
    LET cloud_models ==
            SelectSeq(models, LAMBDA m : m.type \in {ModelType_FREE_API, ModelType_PREMIUM_API})
        local_models == SelectSeq(models, LAMBDA m : m.type = ModelType_LOCAL)
        others == SelectSeq(models, LAMBDA m : m # failed_model)
    IN IF failed_model.type = ModelType_LOCAL /\ cloud_models # <<>>
       THEN Head(cloud_models)
       ELSE IF failed_model.type \in {ModelType_FREE_API, ModelType_PREMIUM_API}
               /\ local_models # <<>>
       THEN Head(local_models)
       ELSE IF others # <<>> THEN Head(others)
       ELSE NoModel

-----------------------------------------------------------------------------
(* AIResponse.                                                             *)

AIResponse(model_used, confidence, fallback_used, tokens_used, cost) ==
    [model_used |-> model_used, confidence |-> confidence,
     fallback_used |-> fallback_used, tokens_used |-> tokens_used, cost |-> cost]

\* AIResponse.success
success(r) == r.confidence > SuccessConfidence

\* What _process_with_ollama returns on status 200: local models are free.
OllamaResponse(m, tokens) == AIResponse(m.name, OllamaConfidence, FALSE, tokens, 0)

\* The error response process_task ends with when no attempt answered.
ErrorResponse == AIResponse("none", 0, TRUE, 0, 0)

NoResponse == AIResponse("", 0, FALSE, 0, 0)

\* Only _process_with_ollama has a path that returns: the free and the
\* premium adapters raise on every call.
CanAnswer(m) == m.type = ModelType_LOCAL

\* The exceptions an attempt can end with.
AttemptFailures ==
    {"timeout", "bad_status", "not_installed", "connection",
     "not_implemented", "no_api_key", "self_analysis"}

\* What _process_with_model raises, by the adapter of the model's type.
process_with_model_raises(m) ==
    IF m.type = ModelType_LOCAL
    THEN {"timeout", "bad_status", "not_installed", "connection"}
    ELSE IF m.type = ModelType_FREE_API
    THEN {"not_implemented"}
    ELSE {"no_api_key", "not_implemented"}

\* What the try block of the primary attempt raises: the adapter's exceptions
\* and, once the model has answered, those of self_analysis.analyze_interaction.
PrimaryTryRaises(m) ==
    process_with_model_raises(m) \cup (IF CanAnswer(m) THEN {"self_analysis"} ELSE {})

\* _count_tokens(prompt) of the prompts the model dispatches.
PromptTokens == {120, 480}

-----------------------------------------------------------------------------
(* Construction.                                                           *)

\* Money a period on disk may have recorded when the process starts.
SpentChoices == {50, 80, 85, 90, 100, 105}

\* The files an earlier process of the same month may have left.
SavedFiles ==
    {NoFile} \cup
    {save_cost_tracking(
        track_usage(CostTracking(MonthKey(1), 0, EmptyMap, EmptyMap, MonthlyLimit),
                    Gpt4Turbo.name, 1, spent)) : spent \in SpentChoices}

\* CostOptimizedRouter.__init__ and ReasoningEngine.__init__/initialize.
Construct(models, file) ==
    /\ available_models = models
    /\ clock = 1
    /\ disk = file
    /\ current_month = MonthKey(1)
    /\ cost_tracking = load_cost_tracking(file, MonthKey(1), MonthlyLimit)
    /\ pc = "idle"
    /\ task = NoTask
    /\ selected_model = NoModel
    /\ fallback_model = NoModel
    /\ response = NoResponse

\* process_user_request has returned nothing yet.
NoReply == [response |-> "", model |-> "", cost |-> 0]

\* No other coroutine uses the router.
NoCoroutines == <<>>

\* Nothing but the engine runs.
\* download_models_parallel is not running.
NoDownloads ==
    /\ max_concurrent = DefaultMaxConcurrent
    /\ semaphore = DefaultMaxConcurrent
    /\ jobs = <<>>
    /\ results = <<>>

Alone == reply = NoReply /\ coroutines = NoCoroutines /\ NoDownloads

Init == \E models \in ModelLists, file \in SavedFiles : Construct(models, file) /\ Alone

LedgerInit == Construct(DefaultModels, NoFile) /\ Alone

-----------------------------------------------------------------------------
(* ReasoningEngine.process_task, one action per await.                     *)

ledger == <<cost_tracking, current_month, disk>>
downloads == <<max_concurrent, semaphore, jobs, results>>
around == <<reply, coroutines, downloads>>
call == <<pc, task, selected_model, fallback_model, response>>

\* ProcessTask reserving the price of a premium call when it routes to one.
ProcessTaskReserving(t) ==
    /\ pc = "idle"
    /\ task' = with_complexity(t)
    /\ LET r == route_task(with_complexity(t), available_models, cost_tracking)
       IN /\ IF r.ok
             THEN pc' = "primary" /\ selected_model' = r.model
             ELSE pc' = "raised" /\ selected_model' = NoModel
          /\ cost_tracking' =
                [cost_tracking EXCEPT !.total_cost = @ + r.model.cost_per_1k_tokens]
    /\ UNCHANGED <<available_models, around, current_month, disk, clock, fallback_model, response>>

\* ProcessTask with a routing that sorts the engine's own list of models.
ProcessTaskSortsInPlace(t) ==
    /\ pc = "idle"
    /\ task' = with_complexity(t)
    /\ LET r == route_task(with_complexity(t), available_models, cost_tracking)
       IN IF r.ok
          THEN pc' = "primary" /\ selected_model' = r.model
          ELSE pc' = "raised" /\ selected_model' = NoModel
    /\ available_models' = SortDescending(available_models)
    /\ UNCHANGED <<around, ledger, clock, fallback_model, response>>

\* The call up to the first await: classification of a task that has no
\* complexity, then routing, which may raise.
ProcessTask(t) ==
    /\ pc = "idle"
    /\ task' = with_complexity(t)
    /\ LET r == route_task(with_complexity(t), available_models, cost_tracking)
       IN IF r.ok
          THEN pc' = "primary" /\ selected_model' = r.model
          ELSE pc' = "raised" /\ selected_model' = NoModel
    /\ UNCHANGED <<available_models, around, ledger, clock, fallback_model, response>>

\* The primary model answers and the interaction is analysed.
PrimarySucceeds(tokens) ==
    /\ pc = "primary"
    /\ CanAnswer(selected_model)
    /\ response' = OllamaResponse(selected_model, tokens)
    /\ pc' = "returned"
    /\ UNCHANGED <<available_models, around, ledger, clock, task, selected_model, fallback_model>>

\* PrimaryFails recording the failed attempt in the ledger.
PrimaryFailsBilled ==
    /\ pc = "primary"
    /\ LET fb == get_fallback_model(selected_model, available_models)
       IN IF fb # NoModel
          THEN pc' = "fallback" /\ fallback_model' = fb /\ response' = response
          ELSE pc' = "returned" /\ fallback_model' = NoModel /\ response' = ErrorResponse
    /\ cost_tracking' = track_usage(cost_tracking, selected_model.name, 120, 0)
    /\ disk' = save_cost_tracking(cost_tracking')
    /\ UNCHANGED <<available_models, around, current_month, clock, task, selected_model>>

\* PrimaryFailsWith letting the "not installed" error out to the caller.
PrimaryFailsAbortsNotInstalled(kind) ==
    /\ pc = "primary"
    /\ kind \in PrimaryTryRaises(selected_model)
    /\ LET fb == get_fallback_model(selected_model, available_models)
       IN IF kind = "not_installed"
          THEN pc' = "raised" /\ fallback_model' = NoModel /\ response' = response
          ELSE IF fb # NoModel
          THEN pc' = "fallback" /\ fallback_model' = fb /\ response' = response
          ELSE pc' = "returned" /\ fallback_model' = NoModel /\ response' = ErrorResponse
    /\ UNCHANGED <<available_models, around, ledger, clock, task, selected_model>>

\* An exception of one kind inside the try block of the primary attempt:
\* "except Exception" catches every kind alike.
PrimaryFailsWith(kind) ==
    /\ pc = "primary"
    /\ kind \in PrimaryTryRaises(selected_model)
    /\ LET fb == get_fallback_model(selected_model, available_models)
       IN IF fb # NoModel
          THEN pc' = "fallback" /\ fallback_model' = fb /\ response' = response
          ELSE pc' = "returned" /\ fallback_model' = NoModel /\ response' = ErrorResponse
    /\ UNCHANGED <<available_models, around, ledger, clock, task, selected_model>>

\* An exception inside the try block of the primary attempt.
PrimaryFails == \E kind \in AttemptFailures : PrimaryFailsWith(kind)

\* FallbackSucceeds returning the adapter's response as it is.
FallbackSucceedsUnmarked(tokens) ==
    /\ pc = "fallback"
    /\ CanAnswer(fallback_model)
    /\ response' = OllamaResponse(fallback_model, tokens)
    /\ pc' = "returned"
    /\ UNCHANGED <<available_models, around, ledger, clock, task, selected_model, fallback_model>>

\* The fallback model answers.
FallbackSucceeds(tokens) ==
    /\ pc = "fallback"
    /\ CanAnswer(fallback_model)
    /\ response' = [OllamaResponse(fallback_model, tokens) EXCEPT !.fallback_used = TRUE]
    /\ pc' = "returned"
    /\ UNCHANGED <<available_models, around, ledger, clock, task, selected_model, fallback_model>>

\* FallbackFails letting the exception of the fallback attempt out.
FallbackFailsRaises ==
    /\ pc = "fallback"
    /\ response' = response
    /\ pc' = "raised"
    /\ UNCHANGED <<available_models, around, ledger, clock, task, selected_model, fallback_model>>

\* The fallback attempt raises too.
FallbackFails ==
    /\ pc = "fallback"
    /\ response' = ErrorResponse
    /\ pc' = "returned"
    /\ UNCHANGED <<available_models, around, ledger, clock, task, selected_model, fallback_model>>

\* The caller has the response, or the exception, and the engine is idle again.
Return ==
    /\ pc \in {"returned", "raised"}
    /\ pc' = "idle"
    /\ task' = NoTask
    /\ selected_model' = NoModel
    /\ fallback_model' = NoModel
    /\ response' = NoResponse
    /\ UNCHANGED <<available_models, around, ledger, clock>>

-----------------------------------------------------------------------------
(* NOVACore.process_user_request around a process_task call: the           *)
(* conversation is saved, then the dict is returned; any exception of the  *)
(* try block is answered with the error dict.                              *)

\* The dict built from the AIResponse: its content, its model and its cost.
ReplyOf(r) == [response |-> "ai_response.content", model |-> r.model_used, cost |-> r.cost]

\* The dict of the except branch.
ErrorReply == [response |-> "I encountered an error", model |-> "none", cost |-> 0]

\* memory.add_conversation returns: the conversation and the profile are saved.
ConversationSaved ==
    /\ pc = "returned"
    /\ reply' = ReplyOf(response)
    /\ pc' = "replied"
    /\ UNCHANGED <<available_models, coroutines, downloads, ledger, clock,
                   task, selected_model, fallback_model, response>>

\* memory.add_conversation raises: save_profile logs the failure and raises
\* it again, inside the try block of process_user_request.
ConversationSaveFails ==
    /\ pc = "returned"
    /\ reply' = ErrorReply
    /\ pc' = "replied"
    /\ UNCHANGED <<available_models, coroutines, downloads, ledger, clock,
                   task, selected_model, fallback_model, response>>

\* process_task raised inside the try block.
RequestFails ==
    /\ pc = "raised"
    /\ reply' = ErrorReply
    /\ pc' = "replied"
    /\ UNCHANGED <<available_models, coroutines, downloads, ledger, clock,
                   task, selected_model, fallback_model, response>>

\* The user has the dict and the engine is idle again.
Replied ==
    /\ pc = "replied"
    /\ pc' = "idle"
    /\ task' = NoTask
    /\ selected_model' = NoModel
    /\ fallback_model' = NoModel
    /\ response' = NoResponse
    /\ reply' = NoReply
    /\ UNCHANGED <<available_models, coroutines, downloads, ledger, clock>>

-----------------------------------------------------------------------------
(* The ledger, the clock and the process.                                  *)

\* CostOptimizedRouter.track_usage: the update and the save that ends it.
TrackUsage(name, tokens, cost) ==
    /\ pc = "idle"
    /\ cost_tracking.total_cost + cost <= MaxSpent
    /\ SumValues(cost_tracking.tokens_by_model) + tokens <= MaxTokens
    /\ cost_tracking' = track_usage(cost_tracking, name, tokens, cost)
    /\ disk' = save_cost_tracking(cost_tracking')
    /\ UNCHANGED <<available_models, around, current_month, clock, call>>

\* The wall clock passes into the next month.
Tick ==
    /\ clock < MaxMonth
    /\ clock' = clock + 1
    /\ UNCHANGED <<available_models, around, ledger, call>>

\* The process ends and a new one is constructed: __init__ loads the file.
Restart ==
    /\ current_month' = MonthKey(clock)
    /\ cost_tracking' = load_cost_tracking(disk, MonthKey(clock), MonthlyLimit)
    /\ pc' = "idle"
    /\ task' = NoTask
    /\ selected_model' = NoModel
    /\ fallback_model' = NoModel
    /\ response' = NoResponse
    /\ reply' = NoReply
    /\ UNCHANGED <<available_models, coroutines, downloads, disk, clock>>

\* The usage the model records.
UsageTokens == {1, 2}
UsageCosts == {0, 35, 50}

Next ==
    \/ \E t \in Tasks \cup UnclassifiedTasks : ProcessTask(t)
    \/ \E n \in PromptTokens : PrimarySucceeds(n)
    \/ PrimaryFails
    \/ \E n \in PromptTokens : FallbackSucceeds(n)
    \/ FallbackFails
    \/ Return
    \/ ConversationSaved
    \/ ConversationSaveFails
    \/ RequestFails
    \/ Replied
    \/ Tick
    \/ Restart

Spec == Init /\ [][Next]_vars

LedgerNext ==
    \/ \E m \in ModelPool, n \in UsageTokens, c \in UsageCosts : TrackUsage(m.name, n, c)
    \/ Tick
    \/ Restart

LedgerSpec == LedgerInit /\ [][LedgerNext]_vars

-----------------------------------------------------------------------------
(* Coroutines of one event loop that record usage on the same router while *)
(* a process_task call is in flight.  asyncio runs a coroutine from one    *)
(* await to the next without interruption, and track_usage awaits nothing, *)
(* so a track_usage call with the save that ends it is one step.           *)

MaxCalls == 2       \* most track_usage calls one coroutine makes

\* asyncio tasks beside the engine's own call, as start_background_task makes them.
CoroutineIds == {"task-1", "task-2"}

\* The arguments of one track_usage call.
Usage(name, tokens, cost) == [model |-> name, tokens |-> tokens, cost |-> cost]

UsageChoices == {Usage(Llama.name, 120, 0), Usage(Gpt4Turbo.name, 1, 35)}

\* The calls a coroutine is going to make, in its order.
CallScripts == UNION {[1..n -> UsageChoices] : n \in 0..MaxCalls}

\* The period a constructor starts when there is no file.
FreshPeriod == CostTracking(current_month, 0, EmptyMap, EmptyMap, MonthlyLimit)

\* track_usage called for each of the calls, in their order.
RECURSIVE Replay(_, _)
Replay(ct, calls) ==
    IF calls = <<>> THEN ct
    ELSE Replay(track_usage(ct, Head(calls).model, Head(calls).tokens, Head(calls).cost),
                Tail(calls))

ConcurrentInit ==
    /\ Construct(DefaultModels, NoFile)
    /\ reply = NoReply
    /\ NoDownloads
    /\ coroutines \in [CoroutineIds -> [todo : CallScripts, done : {<<>>}]]

\* RecordUsage with a router of its own in every coroutine: the period it
\* updates and saves holds the coroutine's own calls only.
RecordUsageOwnRouter(c) ==
    /\ coroutines[c].todo # <<>>
    /\ LET u == Head(coroutines[c].todo)
       IN /\ cost_tracking' = track_usage(Replay(FreshPeriod, coroutines[c].done),
                                          u.model, u.tokens, u.cost)
          /\ disk' = save_cost_tracking(cost_tracking')
          /\ coroutines' = [coroutines EXCEPT ![c] =
                               [todo |-> Tail(@.todo), done |-> Append(@.done, u)]]
    /\ UNCHANGED <<available_models, reply, downloads, current_month, clock, call>>

\* The event loop resumes coroutine c, which calls track_usage and runs on to
\* its next await.
RecordUsage(c) ==
    /\ coroutines[c].todo # <<>>
    /\ LET u == Head(coroutines[c].todo)
       IN /\ cost_tracking' = track_usage(cost_tracking, u.model, u.tokens, u.cost)
          /\ disk' = save_cost_tracking(cost_tracking')
          /\ coroutines' = [coroutines EXCEPT ![c] =
                               [todo |-> Tail(@.todo), done |-> Append(@.done, u)]]
    /\ UNCHANGED <<available_models, reply, downloads, current_month, clock, call>>

ConcurrentNext ==
    \/ \E c \in CoroutineIds : RecordUsage(c)
    \/ \E t \in Tasks : ProcessTask(t)
    \/ \E n \in PromptTokens : PrimarySucceeds(n)
    \/ PrimaryFails
    \/ \E n \in PromptTokens : FallbackSucceeds(n)
    \/ FallbackFails
    \/ Return

ConcurrentSpec == ConcurrentInit /\ [][ConcurrentNext]_vars

-----------------------------------------------------------------------------
(* The save of track_usage step by step, as the file system and a kill of  *)
(* the process see it: open(tracking_file, 'w') empties the file, json.dump *)
(* and the close of the with block write the text.  Either can fail with   *)
(* an OSError, and the process can be killed in between.                   *)

\* The text of the file after open(..., 'w') and before anything is flushed.
EmptyText == [t |-> "partial", v |-> {}]

\* A text cut after its first members, as a partial flush leaves it.
CutText(ct) ==
    [t |-> "partial",
     v |-> {<<"month", JStr(ct.month)>>, <<"total_cost", JNum(ct.total_cost)>>}]

\* What an interrupted write of the period leaves in the file.
TornFiles(ct) == {EmptyText, CutText(ct)}

\* track_usage up to the open of the file: the period in memory is updated,
\* the file is opened for writing and is empty.
BeginSave(name, tokens, cost) ==
    /\ pc = "idle"
    /\ cost_tracking.total_cost + cost <= MaxSpent
    /\ SumValues(cost_tracking.tokens_by_model) + tokens <= MaxTokens
    /\ cost_tracking' = track_usage(cost_tracking, name, tokens, cost)
    /\ disk' = EmptyText
    /\ pc' = "saving"
    /\ UNCHANGED <<available_models, around, current_month, clock,
                   task, selected_model, fallback_model, response>>

\* track_usage when mkdir or open raises (no permission, no space): the
\* period in memory is updated, the file is as it was, the exception leaves
\* track_usage.
OpenFails(name, tokens, cost) ==
    /\ pc = "idle"
    /\ cost_tracking.total_cost + cost <= MaxSpent
    /\ SumValues(cost_tracking.tokens_by_model) + tokens <= MaxTokens
    /\ cost_tracking' = track_usage(cost_tracking, name, tokens, cost)
    /\ pc' = "usage_raised"
    /\ UNCHANGED <<available_models, around, current_month, disk, clock,
                   task, selected_model, fallback_model, response>>

\* json.dump and the close write the whole text: track_usage returns.
FinishSave ==
    /\ pc = "saving"
    /\ disk' = save_cost_tracking(cost_tracking)
    /\ pc' = "idle"
    /\ UNCHANGED <<available_models, around, cost_tracking, current_month, clock,
                   task, selected_model, fallback_model, response>>

\* The write or the flush raises (the disk is full): the exception leaves
\* save_cost_tracking and track_usage, the file is torn.
WriteFails ==
    /\ pc = "saving"
    /\ disk' \in TornFiles(cost_tracking)
    /\ pc' = "usage_raised"
    /\ UNCHANGED <<available_models, around, cost_tracking, current_month, clock,
                   task, selected_model, fallback_model, response>>

\* The caller of track_usage has the exception; the router is used again.
UsageErrorHandled ==
    /\ pc = "usage_raised"
    /\ pc' = "idle"
    /\ UNCHANGED <<available_models, around, ledger, clock,
                   task, selected_model, fallback_model, response>>

\* The process is killed; during a save the file stays as torn as it is.
Kill ==
    /\ pc \in {"idle", "saving", "usage_raised"}
    /\ disk' \in (IF pc = "saving" THEN TornFiles(cost_tracking) ELSE {disk})
    /\ pc' = "dead"
    /\ UNCHANGED <<available_models, around, cost_tracking, current_month, clock,
                   task, selected_model, fallback_model, response>>

\* A new process is constructed: __init__ loads the file, and json.load raises
\* on a text that is not a whole JSON value.
Start ==
    /\ pc = "dead"
    /\ IF disk.t = "partial"
       THEN pc' = "init_raised" /\ UNCHANGED <<cost_tracking, current_month>>
       ELSE /\ pc' = "idle"
            /\ current_month' = MonthKey(clock)
            /\ cost_tracking' = load_cost_tracking(disk, MonthKey(clock), MonthlyLimit)
    /\ UNCHANGED <<available_models, around, disk, clock,
                   task, selected_model, fallback_model, response>>

SaveNext ==
    \/ \E m \in ModelPool, n \in UsageTokens, c \in UsageCosts : BeginSave(m.name, n, c)
    \/ \E m \in ModelPool, n \in UsageTokens, c \in UsageCosts : OpenFails(m.name, n, c)
    \/ FinishSave
    \/ WriteFails
    \/ UsageErrorHandled
    \/ Kill
    \/ Start

SaveSpec == LedgerInit /\ [][SaveNext]_vars

-----------------------------------------------------------------------------
(* Routing alone, over lists that may also hold mistral:7b, a local model  *)
(* without the code capability that sorts above llama3:8b.                 *)

Mistral == Model("mistral:7b", ModelType_LOCAL, {"general", "fast"}, 0, 9, 7)

RouteModelLists ==
    {s \in UNION {[1..n -> ModelPool \cup {Mistral}] : n \in 0..MaxModels} :
        \A i, j \in DOMAIN s : i # j => s[i] # s[j]}

RouteInit ==
    \E models \in RouteModelLists, file \in SavedFiles : Construct(models, file) /\ Alone

\* A request to NOVACore.process_user_request: the length of its text and
\* which of the keyword lists of NOVACore have a keyword in it.
UserRequest(length, complex_keyword, medium_keyword, code_keyword) ==
    [content_length |-> length, complex_keyword |-> complex_keyword,
     medium_keyword |-> medium_keyword, code_keyword |-> code_keyword]

UserRequests ==
    {UserRequest(n, c, m, g) : n \in {99, 2000}, c \in BOOLEAN, m \in BOOLEAN, g \in BOOLEAN}

\* NOVACore._analyze_complexity: by keyword, never CRITICAL.
core_analyze_complexity(req) ==
    IF req.complex_keyword THEN COMPLEX
    ELSE IF req.medium_keyword THEN MEDIUM
    ELSE SIMPLE

\* The Task process_user_request builds: its complexity is always set.
core_task(req) ==
    [content_length |-> req.content_length,
     requires_code_gen |-> req.code_keyword,
     complexity |-> core_analyze_complexity(req)]

\* process_user_request up to the first await inside process_task.
ProcessUserRequest(req) == ProcessTask(core_task(req))

RouteNext ==
    \/ \E t \in Tasks \cup UnclassifiedTasks : ProcessTask(t)
    \/ \E req \in UserRequests : ProcessUserRequest(req)
    \/ Return

RouteSpec == RouteInit /\ [][RouteNext]_vars

-----------------------------------------------------------------------------
(* AdaptiveModelManager.download_models_parallel: one download_with_retry  *)
(* coroutine per requested model, all behind one asyncio.Semaphore.  A     *)
(* requested model stands for its name, the key of the results dict; the   *)
(* callers request distinct models.                                        *)

MaxDownloads == 3   \* most models one call requests

engine == <<available_models, ledger, clock, call, reply, coroutines>>

\* A download_with_retry coroutine: where it stands, its retry_count, and the
\* number of 'ollama pull' attempts it has begun.
Job(state, retry_count, attempts) ==
    [state |-> state, retry_count |-> retry_count, attempts |-> attempts]

\* The coroutines that hold a slot of the semaphore.
InProgress == {i \in DOMAIN jobs : jobs[i].state \in {"pulling", "backoff"}}

\* The call: the semaphore and one coroutine per model, none of them run yet.
DownloadModelsParallel(n, limit) ==
    /\ jobs = <<>>
    /\ max_concurrent' = limit
    /\ semaphore' = limit
    /\ jobs' = [i \in 1..n |-> Job("waiting", 0, 0)]
    /\ results' = <<>>
    /\ UNCHANGED engine

\* Acquire entering the semaphore whether a slot is free or not.
AcquireUnbounded(i) ==
    /\ i \in DOMAIN jobs
    /\ jobs[i].state = "waiting"
    /\ semaphore' = semaphore - 1
    /\ jobs' = [jobs EXCEPT ![i] = Job("pulling", 0, 1)]
    /\ UNCHANGED <<engine, max_concurrent, results>>

\* "async with semaphore": a slot is free, the coroutine takes it and begins
\* its first attempt.
Acquire(i) ==
    /\ i \in DOMAIN jobs
    /\ jobs[i].state = "waiting"
    /\ semaphore > 0
    /\ semaphore' = semaphore - 1
    /\ jobs' = [jobs EXCEPT ![i] = Job("pulling", 0, 1)]
    /\ UNCHANGED <<engine, max_concurrent, results>>

\* The pull ends with return code 0: the result is recorded, the coroutine
\* returns and leaves the semaphore.
PullSucceeds(i) ==
    /\ i \in DOMAIN jobs
    /\ jobs[i].state = "pulling"
    /\ results' = Put(results, i, TRUE)
    /\ jobs' = [jobs EXCEPT ![i].state = "done"]
    /\ semaphore' = semaphore + 1
    /\ UNCHANGED <<engine, max_concurrent>>

\* PullFails going round the loop until the pull succeeds.
PullFailsUncounted(i, consumed) ==
    /\ i \in DOMAIN jobs
    /\ jobs[i].state = "pulling"
    /\ jobs[i].attempts < MaxRetries + 1
    /\ jobs' = [jobs EXCEPT ![i].state = "backoff"]
    /\ UNCHANGED <<engine, max_concurrent, semaphore, results>>

\* The pull ends with another return code, times out or raises: retry_count
\* goes up by one, or by two when the clean-up after a timeout raises as
\* well.  Below max_retries the coroutine sleeps, else it records the failure
\* and leaves the semaphore.
PullFails(i, consumed) ==
    /\ i \in DOMAIN jobs
    /\ jobs[i].state = "pulling"
    /\ LET count == jobs[i].retry_count + consumed
       IN IF count < MaxRetries
          THEN /\ jobs' = [jobs EXCEPT ![i].state = "backoff", ![i].retry_count = count]
               /\ UNCHANGED <<semaphore, results>>
          ELSE /\ jobs' = [jobs EXCEPT ![i].state = "done", ![i].retry_count = count]
               /\ results' = Put(results, i, FALSE)
               /\ semaphore' = semaphore + 1
    /\ UNCHANGED <<engine, max_concurrent>>

\* asyncio.sleep(10 * retry_count) is over: the next attempt begins.
BackoffEnds(i) ==
    /\ i \in DOMAIN jobs
    /\ jobs[i].state = "backoff"
    /\ jobs' = [jobs EXCEPT ![i].state = "pulling", ![i].attempts = @ + 1]
    /\ UNCHANGED <<engine, max_concurrent, semaphore, results>>

\* asyncio.gather has every coroutine's result: the call returns results.
GatherReturns ==
    /\ jobs # <<>>
    /\ \A i \in DOMAIN jobs : jobs[i].state = "done"
    /\ jobs' = <<>>
    /\ UNCHANGED <<engine, max_concurrent, semaphore, results>>

\* retry_count increments one failed attempt can make.
Consumed == {1, 2}

\* The values of max_concurrent the callers pass.
ConcurrencyChoices == 1..DefaultMaxConcurrent

DownloadNext ==
    \/ \E n \in 1..MaxDownloads, limit \in ConcurrencyChoices : DownloadModelsParallel(n, limit)
    \/ \E i \in 1..MaxDownloads : Acquire(i)
    \/ \E i \in 1..MaxDownloads : PullSucceeds(i)
    \/ \E i \in 1..MaxDownloads, consumed \in Consumed : PullFails(i, consumed)
    \/ \E i \in 1..MaxDownloads : BackoffEnds(i)
    \/ GatherReturns

\* A step of the running call.
DownloadProgress ==
    \/ \E i \in 1..MaxDownloads : Acquire(i)
    \/ \E i \in 1..MaxDownloads : PullSucceeds(i)
    \/ \E i \in 1..MaxDownloads, consumed \in Consumed : PullFails(i, consumed)
    \/ \E i \in 1..MaxDownloads : BackoffEnds(i)
    \/ GatherReturns

\* The event loop keeps running: every pull ends (wait_for cuts it off after
\* 600 s), every sleep ends, and a released semaphore wakes a waiter.
DownloadFairness == WF_vars(DownloadProgress)

DownloadSpec == LedgerInit /\ [][DownloadNext]_vars /\ DownloadFairness

-----------------------------------------------------------------------------
(* Properties.                                                             *)

UsageNames == {m.name : m \in ModelPool}

\* C1: within a period every track_usage call adds its cost to total_cost, and
\* after the call total_cost is the sum of cost_by_model over all models; the
\* period starts at zero, so total_cost is the sum of the costs recorded.
C1_LedgerSum ==
    [][\A name \in UsageNames, n \in UsageTokens, c \in UsageCosts :
          TrackUsage(name, n, c) =>
              /\ cost_tracking'.total_cost = cost_tracking.total_cost + c
              /\ cost_tracking'.total_cost = SumValues(cost_tracking'.cost_by_model)
              /\ cost_tracking.total_cost = SumValues(cost_tracking.cost_by_model)]_vars

\* C1 witness: costs recorded for two models, with more than one call for one.
C1_Witness ==
    /\ Cardinality({k \in DOMAIN cost_tracking.cost_by_model :
                       cost_tracking.cost_by_model[k] > 0}) >= 2
    /\ cost_tracking.total_cost = 105
    /\ cost_tracking.total_cost = SumValues(cost_tracking.cost_by_model)

\* A step of process_task that returns a successful response.
Answered == pc' = "returned" /\ success(response')

\* A step of process_task, from the call to its return or raise.
DispatchStep ==
    \/ \E t \in Tasks \cup UnclassifiedTasks : ProcessTask(t)
    \/ \E n \in PromptTokens : PrimarySucceeds(n)
    \/ PrimaryFails
    \/ \E n \in PromptTokens : FallbackSucceeds(n)
    \/ FallbackFails

\* C2: a process_task call that returns a successful response has recorded that
\* attempt, once, for the model that answered, with its tokens and its cost.
C2_SuccessRecorded ==
    [][(DispatchStep /\ Answered) =>
          cost_tracking' = track_usage(cost_tracking, response'.model_used,
                                       response'.tokens_used, response'.cost)]_vars

\* C3: no step of process_task other than the one that returns a successful
\* response touches the ledger or its file: a failed attempt is never recorded,
\* at most the answering attempt is, and a call whose attempts all fail leaves
\* the ledger as it was.
C3_NoBillingOnFailure ==
    [][(DispatchStep /\ ~Answered) =>
          (cost_tracking' = cost_tracking /\ disk' = disk)]_vars

\* C3 witness: the primary attempt failed and the fallback answered.
C3_Witness ==
    /\ pc = "returned"
    /\ success(response)
    /\ response.fallback_used
    /\ response.model_used = fallback_model.name
    /\ cost_tracking.total_cost = 85

\* C4: a failing attempt never lets its exception out of process_task, and when
\* the last attempt has failed the call returns the error response: not a
\* success, no cost, no tokens.
C4_ExhaustionReturnsFailure ==
    [][/\ PrimaryFails =>
            \/ pc' = "fallback" /\ fallback_model' # NoModel
            \/ /\ pc' = "returned"
               /\ ~success(response')
               /\ response'.cost = 0
               /\ response'.tokens_used = 0
       /\ FallbackFails =>
            /\ pc' = "returned"
            /\ ~success(response')
            /\ response'.cost = 0
            /\ response'.tokens_used = 0]_vars

\* C4 witness: the primary and the fallback attempt both failed.
C4_Witness ==
    /\ pc = "returned"
    /\ selected_model # NoModel
    /\ fallback_model # NoModel
    /\ response = ErrorResponse

\* C5: process_task never raises; in particular not when no model is found.
C5_NeverRaises == pc # "raised"

\* C6: with no budget left route_task returns no premium model, whatever the
\* task, and so the primary attempt of a call is on none.
C6_ExhaustedNoPremium ==
    remaining_budget(cost_tracking) <= 0 =>
        /\ \A t \in Tasks :
              route_task(t, available_models, cost_tracking).model.type
                  # ModelType_PREMIUM_API
        /\ pc = "primary" => selected_model.type # ModelType_PREMIUM_API

\* C6 witness: a complex task routed with no budget left and a premium model listed.
C6_Witness ==
    /\ remaining_budget(cost_tracking) = 0
    /\ \E i \in DOMAIN available_models :
          available_models[i].type = ModelType_PREMIUM_API
    /\ pc = "primary"
    /\ task.complexity = COMPLEX
    /\ selected_model.type = ModelType_LOCAL

\* C7: in a call made with no budget left neither the primary nor the fallback
\* attempt is on a premium model.
C7_ExhaustedNoPremiumAttempt ==
    remaining_budget(cost_tracking) <= 0 =>
        /\ pc = "primary" => selected_model.type # ModelType_PREMIUM_API
        /\ pc = "fallback" => fallback_model.type # ModelType_PREMIUM_API

HasType(models, type) == \E i \in DOMAIN models : models[i].type = type

\* C8: with more than 1.0 and at most 5.0 left, and a premium and a local model
\* listed, a critical task is routed to a premium model and a complex task, on
\* the same models and budget, to a local one.
C8_CriticalOverridesReserve ==
    (/\ remaining_budget(cost_tracking) > ReserveCritical
     /\ remaining_budget(cost_tracking) <= ReserveComplex
     /\ HasType(available_models, ModelType_PREMIUM_API)
     /\ HasType(available_models, ModelType_LOCAL)) =>
        \A g \in BOOLEAN :
            /\ route_task(Task(CRITICAL, g), available_models, cost_tracking).model.type
                   = ModelType_PREMIUM_API
            /\ route_task(Task(COMPLEX, g), available_models, cost_tracking).model.type
                   = ModelType_LOCAL
            /\ (pc = "primary" /\ task = Task(CRITICAL, g))
                   => selected_model.type = ModelType_PREMIUM_API
            /\ (pc = "primary" /\ task = Task(COMPLEX, g))
                   => selected_model.type = ModelType_LOCAL

\* C8 witness: a critical task sent to the premium model with 1.5 left.
C8_Witness ==
    /\ remaining_budget(cost_tracking) = 15
    /\ HasType(available_models, ModelType_LOCAL)
    /\ pc = "primary"
    /\ task.complexity = CRITICAL
    /\ selected_model.type = ModelType_PREMIUM_API

\* C9: a ledger operation in a month other than the period's first replaces the
\* period by a zeroed one of the wall-clock month, so track_usage leaves only
\* its own usage in the period.
C9_RolloverOnLedgerOperation ==
    [][\A name \in UsageNames, n \in UsageTokens, c \in UsageCosts :
          (TrackUsage(name, n, c) /\ cost_tracking.month # MonthKey(clock)) =>
              cost_tracking' =
                  track_usage(CostTracking(MonthKey(clock), 0, EmptyMap, EmptyMap,
                                           cost_tracking.budget_limit),
                              name, n, c)]_vars

\* C10: a period saved to the file and loaded by a process constructed in the
\* month of its key is the same period, field by field.
C10_RoundTrip ==
    [][(/\ Restart
        /\ disk = save_cost_tracking(cost_tracking)
        /\ cost_tracking.month = MonthKey(clock)) =>
          /\ cost_tracking'.month = cost_tracking.month
          /\ cost_tracking'.total_cost = cost_tracking.total_cost
          /\ cost_tracking'.cost_by_model = cost_tracking.cost_by_model
          /\ cost_tracking'.tokens_by_model = cost_tracking.tokens_by_model
          /\ cost_tracking'.budget_limit = cost_tracking.budget_limit]_vars

\* C10 witness: the file holds the saved period of the current month, with
\* costs and tokens of two models, in a process that loaded at its start.
C10_Witness ==
    /\ clock = 2
    /\ current_month = MonthKey(2)
    /\ cost_tracking.month = MonthKey(2)
    /\ disk = save_cost_tracking(cost_tracking)
    /\ Cardinality(DOMAIN cost_tracking.tokens_by_model) >= 2
    /\ cost_tracking.total_cost > 0

\* C11: a successful response says which attempt answered: the primary attempt
\* returns fallback_used false and the selected model's name, the fallback
\* attempt returns fallback_used true and the fallback model's name, and the
\* fallback model is never the selected one.
C11_AttemptReported ==
    [][/\ \A n \in PromptTokens :
            PrimarySucceeds(n) =>
                /\ success(response')
                /\ ~response'.fallback_used
                /\ response'.model_used = selected_model.name
       /\ \A n \in PromptTokens :
            FallbackSucceeds(n) =>
                /\ success(response')
                /\ response'.fallback_used
                /\ response'.model_used = fallback_model.name
                /\ fallback_model.name # selected_model.name]_vars

\* C11 witness: a premium model was selected and failed, a local one answered.
C11_Witness ==
    /\ pc = "returned"
    /\ success(response)
    /\ response.fallback_used
    /\ selected_model.type = ModelType_PREMIUM_API
    /\ response.model_used = fallback_model.name
    /\ response.model_used # selected_model.name

\* The candidates of the routing decision process_task acted on, best first.
RoutingChain == route_task(task, available_models, cost_tracking).pool

\* C12: the candidates of the routing decision are attempted in routing order:
\* the attempt after the failed primary is on the second candidate, and the
\* terminal failure is returned only after every candidate was attempted.
C12_ChainWalked ==
    /\ pc = "fallback" =>
          /\ Len(RoutingChain) >= 2
          /\ fallback_model = RoutingChain[2]
    /\ (pc = "returned" /\ response = ErrorResponse) =>
          \A i \in DOMAIN RoutingChain :
              RoutingChain[i] \in {selected_model, fallback_model}

HasZeroCostModel(models) ==
    \E i \in DOMAIN models :
        \/ models[i].type = ModelType_LOCAL
        \/ models[i].type = ModelType_FREE_API /\ is_free(models[i])

\* C14: with nothing left of the budget, route_task still returns a model for a
\* task of every complexity whenever the list holds a model that costs nothing.
C14_ExhaustedStillServes ==
    (remaining_budget(cost_tracking) <= 0 /\ HasZeroCostModel(available_models)) =>
        \A t \in Tasks : route_task(t, available_models, cost_tracking).ok

\* C15: a task without a complexity is given exactly one, by its content length
\* and its code generation flag: simple iff shorter than 100 and no code
\* generation; else medium iff shorter than 500 or code generation; else
\* complex iff shorter than 2000; else critical.
C15_Classification ==
    [][\A t \in UnclassifiedTasks :
          ProcessTask(t) =>
              LET n == t.content_length
                  g == t.requires_code_gen
                  c == task'.complexity
                  simple == n < 100 /\ ~g
                  medium == ~simple /\ (n < 500 \/ g)
                  complex == ~simple /\ ~medium /\ n < 2000
              IN /\ c \in TaskComplexity
                 /\ c = SIMPLE <=> simple
                 /\ c = MEDIUM <=> medium
                 /\ c = COMPLEX <=> complex
                 /\ c = CRITICAL <=> (~simple /\ ~medium /\ ~complex)
                 /\ task'.content_length = n /\ task'.requires_code_gen = g]_vars

\* C15 witness: a task of 2000 characters was classified critical and routed,
\* and one of 100 characters would be medium.
C15_Witness ==
    /\ pc = "primary"
    /\ "content_length" \in DOMAIN task
    /\ task.content_length = 2000
    /\ ~task.requires_code_gen
    /\ task.complexity = CRITICAL
    /\ analyze_complexity(UnclassifiedTask(100, FALSE)) = MEDIUM

\* What the track_usage calls made so far by all coroutines add up to, for the
\* field ("cost" or "tokens") of the calls for one model.
RECURSIVE SumCalls(_, _, _)
SumCalls(calls, name, field) ==
    IF calls = <<>> THEN 0
    ELSE (IF Head(calls).model = name THEN Head(calls)[field] ELSE 0)
         + SumCalls(Tail(calls), name, field)

RECURSIVE SumCoroutines(_, _, _)
SumCoroutines(ids, name, field) ==
    IF ids = {} THEN 0
    ELSE LET c == CHOOSE x \in ids : TRUE
         IN SumCalls(coroutines[c].done, name, field)
            + SumCoroutines(ids \ {c}, name, field)

RecordedFor(name, field) == SumCoroutines(DOMAIN coroutines, name, field)

\* C16: however the event loop interleaves the coroutines and the steps of a
\* process_task call, no track_usage update is lost: total_cost and every entry
\* of cost_by_model and tokens_by_model are the sums over the calls made so far,
\* and the file holds that period.
C16_NoLostUpdate ==
    /\ \A name \in UsageNames :
          /\ name \in DOMAIN cost_tracking.cost_by_model =>
                /\ cost_tracking.cost_by_model[name] = RecordedFor(name, "cost")
                /\ cost_tracking.tokens_by_model[name] = RecordedFor(name, "tokens")
          /\ name \notin DOMAIN cost_tracking.cost_by_model =>
                \A c \in DOMAIN coroutines :
                    \A i \in DOMAIN coroutines[c].done :
                        coroutines[c].done[i].model # name
    /\ cost_tracking.total_cost =
          RecordedFor(Llama.name, "cost") + RecordedFor(GroqMixtral.name, "cost")
          + RecordedFor(Gpt4Turbo.name, "cost") + RecordedFor(TinyDolphin.name, "cost")
    /\ disk # NoFile => disk = save_cost_tracking(cost_tracking)

\* C16 witness: both coroutines have made all their calls, twice each and for
\* the same model among them, while a process_task call was waiting for its
\* model.
C16_Witness ==
    /\ \A c \in DOMAIN coroutines :
          coroutines[c].todo = <<>> /\ Len(coroutines[c].done) >= 2
    /\ DOMAIN coroutines # {}
    /\ \A c \in DOMAIN coroutines :
          \E i \in DOMAIN coroutines[c].done :
              coroutines[c].done[i].model = Gpt4Turbo.name
    /\ cost_tracking.total_cost >= 105
    /\ pc = "primary"

\* C17: when the save of a track_usage call fails, track_usage does not raise,
\* and the period in memory holds the tokens and the cost of the call.
C17_SaveFailureContained ==
    [][/\ \A name \in UsageNames, n \in UsageTokens, c \in UsageCosts :
            OpenFails(name, n, c) =>
                /\ pc' # "usage_raised"
                /\ cost_tracking' = track_usage(cost_tracking, name, n, c)
       /\ WriteFails =>
            /\ pc' # "usage_raised"
            /\ cost_tracking' = cost_tracking]_vars

\* C19: at every point of a save, a kill of the process in the middle of the
\* write included, the file holds the whole previous state or the whole new
\* one, never an empty or a cut text.
C19_AtomicWrite ==
    [][/\ disk' = disk \/ disk' = save_cost_tracking(cost_tracking')
       /\ disk'.t # "partial"]_vars

\* C18: when saving the conversation fails after process_task returned, the
\* caller of process_user_request still receives the content, the model and
\* the cost of the response.
C18_ConversationFailureContained ==
    [][ConversationSaveFails => reply' = ReplyOf(response)]_vars

\* C20: in every state of the ledger the remaining budget is
\* max(0, budget_limit - total_cost): the difference while the total is within
\* the limit, zero once track_usage has pushed the total above it, never
\* negative.
C20_RemainingClamped ==
    /\ remaining_budget(cost_tracking) >= 0
    /\ cost_tracking.total_cost <= cost_tracking.budget_limit =>
          remaining_budget(cost_tracking) + cost_tracking.total_cost
              = cost_tracking.budget_limit
    /\ cost_tracking.total_cost > cost_tracking.budget_limit =>
          remaining_budget(cost_tracking) = 0

\* C20 witness: track_usage calls have pushed the total above the limit.
C20_Witness ==
    /\ cost_tracking.total_cost > cost_tracking.budget_limit
    /\ cost_tracking.budget_limit = MonthlyLimit
    /\ remaining_budget(cost_tracking) = 0
    /\ disk = save_cost_tracking(cost_tracking)

\* The models of a list that satisfy a condition, as a set.
ModelsWhere(models, Keep(_)) == {models[i] : i \in {j \in DOMAIN models : Keep(models[j])}}

\* C21: a medium task routed with budget left gets a free remote model or a
\* local model of quality 7 or more whenever the list holds one; otherwise a
\* premium model if more than 2.0 is left and one is listed; otherwise any
\* local model; otherwise routing fails.
C21_MediumRouting ==
    (/\ pc \in {"primary", "raised"}
     /\ task.complexity = MEDIUM
     /\ remaining_budget(cost_tracking) > 0) =>
        LET preferred ==
                ModelsWhere(available_models,
                    LAMBDA m : \/ m.type = ModelType_FREE_API /\ m.cost_per_1k_tokens = 0
                               \/ m.type = ModelType_LOCAL /\ m.quality_score >= 7)
            premium ==
                ModelsWhere(available_models, LAMBDA m : m.type = ModelType_PREMIUM_API)
            local ==
                ModelsWhere(available_models, LAMBDA m : m.type = ModelType_LOCAL)
        IN IF preferred # {}
           THEN pc = "primary" /\ selected_model \in preferred
           ELSE IF remaining_budget(cost_tracking) > 20 /\ premium # {}
           THEN pc = "primary" /\ selected_model \in premium
           ELSE IF local # {}
           THEN pc = "primary" /\ selected_model \in local
           ELSE pc = "raised"

\* C21 witness: exactly 2.0 left, no preferred model, a premium model listed:
\* the medium task went to the local model of quality 6.
C21_Witness ==
    /\ pc = "primary"
    /\ task.complexity = MEDIUM
    /\ remaining_budget(cost_tracking) = 20
    /\ HasType(available_models, ModelType_PREMIUM_API)
    /\ selected_model = TinyDolphin

\* The candidates the routing decision chose among before the code generation
\* filter: the branch of route_task depends on the complexity and the budget
\* only, so they are the candidates of the same task without the flag.
UnrestrictedRoute ==
    route_task([task EXCEPT !.requires_code_gen = FALSE], available_models, cost_tracking)

HasCode(m) == "code" \in m.capabilities

\* C22: for a code generation task the selected model has the "code"
\* capability whenever a candidate of the chosen pool has it; when none has,
\* the best of the whole pool is selected, and routing fails only when it
\* fails for the same task without the flag.
C22_CodeRestriction ==
    (pc \in {"primary", "raised"} /\ task.requires_code_gen) =>
        LET pool == UnrestrictedRoute.pool
        IN /\ pc = "raised" <=> ~UnrestrictedRoute.ok
           /\ pc = "primary" =>
                /\ \E i \in DOMAIN pool : pool[i] = selected_model
                /\ (\E i \in DOMAIN pool : HasCode(pool[i])) => HasCode(selected_model)
                /\ (\A i \in DOMAIN pool : ~HasCode(pool[i])) =>
                        selected_model = UnrestrictedRoute.model

\* C22 witness: mistral:7b heads the pool, llama3:8b is selected for its
\* "code" capability.
C22_Witness ==
    /\ pc = "primary"
    /\ task.requires_code_gen
    /\ UnrestrictedRoute.model = Mistral
    /\ selected_model = Llama

\* C23: the selected model is a maximum of the candidates left after the
\* capability filter: it is one of them, and none of them has a higher
\* quality_score, or the same quality_score and a higher speed_score.
C23_PrimaryIsMaximum ==
    pc = "primary" =>
        LET pool == route_task(task, available_models, cost_tracking).pool
        IN /\ \E i \in DOMAIN pool : pool[i] = selected_model
           /\ \A i \in DOMAIN pool :
                /\ pool[i].quality_score <= selected_model.quality_score
                /\ pool[i].quality_score = selected_model.quality_score =>
                        pool[i].speed_score <= selected_model.speed_score

\* C23 witness: two candidates of the same quality, the faster one selected
\* before a faster model of lower quality.
C23_Witness ==
    /\ pc = "primary"
    /\ selected_model = Mistral
    /\ LET pool == route_task(task, available_models, cost_tracking).pool
       IN /\ \E i \in DOMAIN pool : pool[i] = Llama
          /\ \E i \in DOMAIN pool : pool[i] = TinyDolphin

\* C24: a timeout, a non-success status, a model that is not installed and a
\* missing premium credential on the primary attempt are handled alike: none
\* leaves process_task as an exception, the fallback model is attempted
\* whenever the list holds another model, and the failure response is returned
\* when it holds none.
C24_FailuresAlike ==
    [][\A kind \in {"timeout", "bad_status", "not_installed", "no_api_key"} :
          PrimaryFailsWith(kind) =>
              /\ pc' # "raised"
              /\ IF \E i \in DOMAIN available_models : available_models[i] # selected_model
                 THEN /\ pc' = "fallback"
                      /\ fallback_model' # selected_model
                      /\ \E i \in DOMAIN available_models :
                            available_models[i] = fallback_model'
                 ELSE pc' = "returned" /\ response' = ErrorResponse]_vars

\* C24 witness: the premium model was selected, its adapter can only fail for
\* the missing credential or the missing integration, and the local model is
\* being attempted.
C24_Witness ==
    /\ pc = "fallback"
    /\ "no_api_key" \in process_with_model_raises(selected_model)
    /\ fallback_model.type = ModelType_LOCAL
    /\ "not_installed" \in process_with_model_raises(fallback_model)

\* C25: never more than max_concurrent downloads are in progress, however
\* many models were requested; a coroutine leaves the semaphore when its model
\* is finished, so every requested model gets a slot in the end.
C25_BoundedConcurrency ==
    /\ [](/\ Cardinality(InProgress) <= max_concurrent
          /\ Cardinality(InProgress) + semaphore = max_concurrent
          /\ max_concurrent <= DefaultMaxConcurrent)
    /\ \A i \in 1..MaxDownloads :
          (i \in DOMAIN jobs /\ jobs[i].state = "waiting")
              ~> (i \in DOMAIN jobs /\ jobs[i].state # "waiting")

\* C25 witness: more models requested than slots, both slots taken by a model
\* in its last attempt and a model in its backoff, the third model waiting.
C25_Witness ==
    /\ Cardinality(DOMAIN jobs) > max_concurrent
    /\ semaphore = 0
    /\ max_concurrent >= 2
    /\ \E i \in DOMAIN jobs : jobs[i].state = "waiting"
    /\ \E i \in DOMAIN jobs : jobs[i].state = "pulling" /\ jobs[i].attempts = 3
    /\ \E i \in DOMAIN jobs : jobs[i].state = "backoff"

C27_OldPeriodSurvives ==
    [][\A k \in 1..MaxMonth :
          (/\ disk # NoFile
           /\ Member(disk, "month").v = MonthKey(k)
           /\ load_cost_tracking(disk, MonthKey(k), MonthlyLimit).total_cost > 0
           /\ cost_tracking'.month # MonthKey(k)) =>
              /\ disk' # NoFile
              /\ load_cost_tracking(disk', MonthKey(k), MonthlyLimit)
                    = load_cost_tracking(disk, MonthKey(k), MonthlyLimit)]_vars

\* C28: a request that comes without a complexity is routed with the
\* complexity the length and code generation policy gives its text; one of
\* 2000 characters without code generation is routed as critical.
C28_RequestClassifiedByLength ==
    [][\A req \in UserRequests :
          ProcessUserRequest(req) =>
              task'.complexity =
                  analyze_complexity(UnclassifiedTask(req.content_length,
                                                      req.code_keyword))]_vars

\* C29: routing reads and does not write: the step of process_task that routes
\* leaves the list of models, in its order, and the ledger with its file as
\* they were, whether routing returns a model or raises.
C29_RoutingReadOnly ==
    [][\A t \in Tasks \cup UnclassifiedTasks :
          ProcessTask(t) =>
              /\ available_models' = available_models
              /\ cost_tracking' = cost_tracking
              /\ current_month' = current_month
              /\ disk' = disk
              /\ pc' \in {"primary", "raised"}]_vars

\* C29 witness: routing chose the third model of a list that is not in
\* sorted order, and the list is still in that order.
C29_Witness ==
    /\ pc = "primary"
    /\ Len(available_models) = 3
    /\ selected_model = available_models[3]
    /\ KeyLess(available_models[1], available_models[2])
    /\ available_models[1].type = selected_model.type

\* C30: once the primary model has answered, process_task returns that answer
\* with fallback_used false and calls no other model, even when recording the
\* interaction for self analysis raises.
C30_AnswerSurvivesSelfAnalysis ==
    [][PrimaryFailsWith("self_analysis") =>
          /\ pc' = "returned"
          /\ success(response')
          /\ response'.model_used = selected_model.name
          /\ ~response'.fallback_used]_vars

====
